---- MODULE Spec2Model ----
(***************************************************************************)
(* The windowed cumulative-comparison engine of the onboarding dashboard   *)
(* (src/app.py): get_window_data, calc_delta, get_delta_pct and            *)
(* create_combined_data.                                                   *)
(*                                                                         *)
(* A calendar date is its day ordinal (an integer); a pandas Timedelta of  *)
(* n days is the integer n.  A data frame is a sequence of rows, a row a   *)
(* record of its columns.  A cell that may be missing is NaN (<<>>) or     *)
(* <<n>>; after fillna(0) a count is a plain number.  A float result of    *)
(* calc_delta is an exact fraction [nan, num, den] in lowest terms.        *)
(***************************************************************************)
EXTENDS Integers, Sequences, FiniteSets

VARIABLES df, days, windows, call, ret, limiter, req

vars == <<df, days, windows, call, ret, limiter, req>>

-----------------------------------------------------------------------------
(* Bounds of the model *)

MaxDays == 2
MaxEvents == 2
MaxTotal == 150

-----------------------------------------------------------------------------
(* The anchor date, app.py:13 *)

CURRENT_DATE == 40

(* dates an event of the table may carry: from before the oldest window of *)
(* the largest days to after the anchor date                               *)
FirstDate == CURRENT_DATE - 4 * MaxDays - 1
LastDate == CURRENT_DATE + 1
EventDates == FirstDate .. LastDate

-----------------------------------------------------------------------------
(* pandas primitives used by the engine *)

NaN == <<>>

Num(n) == <<n>>

\* date_range with the start day left out (an exclusive left end)
date_range_open_start(start, end) ==
    IF end <= start THEN <<>> ELSE [i \in 1 .. (end - start) |-> start + i]

\* pd.date_range(start, end, freq="D"): every day from start to end, both
\* included; empty when end < start
date_range(start, end) ==
    IF end < start THEN <<>> ELSE [i \in 1 .. (end - start + 1) |-> start + i - 1]

RECURSIVE SortedSeq(_)
\* the elements of a finite set of integers in increasing order
SortedSeq(S) ==
    IF S = {} THEN <<>>
    ELSE LET m == CHOOSE x \in S : \A y \in S : x <= y
         IN <<m>> \o SortedSeq(S \ {m})

\* Series.value_counts().sort_index().reset_index(): one row per distinct
\* date, in date order, with the number of rows of the series carrying it
value_counts(dates) ==
    LET keys == SortedSeq({dates[i] : i \in DOMAIN dates})
    IN [k \in DOMAIN keys |->
          [date_created |-> keys[k],
           count |-> Cardinality({i \in DOMAIN dates : dates[i] = keys[k]})]]

\* left.merge(right, how='outer') on the shared column date_created, for
\* frames whose dates are unique: the union of the dates, sorted (an outer
\* merge sorts its keys, as pandas documents and applies from 2.2 on); the
\* count of the side that has one for that date, NaN where neither has
merge_outer(left, right) ==
    LET both == left \o right
        keys == SortedSeq({both[i].date_created : i \in DOMAIN both})
        cell(d) ==
            IF \E i \in DOMAIN both :
                   both[i].date_created = d /\ "count" \in DOMAIN both[i]
            THEN LET i == CHOOSE j \in DOMAIN both :
                              both[j].date_created = d /\ "count" \in DOMAIN both[j]
                 IN Num(both[i].count)
            ELSE NaN
    IN [k \in DOMAIN keys |-> [date_created |-> keys[k], count |-> cell(keys[k])]]

\* DataFrame.fillna(0) on the merged frame
fillna(frame, v) ==
    [i \in DOMAIN frame |->
        [date_created |-> frame[i].date_created,
         count |-> IF frame[i].count = NaN THEN v ELSE frame[i].count[1]]]

\* a one-column frame of dates (pd.Series(..., name='date_created'))
date_frame(dates) == [i \in DOMAIN dates |-> [date_created |-> dates[i]]]

RECURSIVE SumCount(_, _)
\* count[1] + ... + count[i]
SumCount(frame, i) ==
    IF i = 0 THEN 0 ELSE SumCount(frame, i - 1) + frame[i].count

\* a running sum that leaves out the row's own count
with_cumsum_exclusive(frame) ==
    [i \in DOMAIN frame |->
        [date_created |-> frame[i].date_created,
         count |-> frame[i].count,
         cumsum |-> SumCount(frame, i - 1)]]

\* frame['cumsum'] = frame['count'].cumsum().astype(int)
with_cumsum(frame) ==
    [i \in DOMAIN frame |->
        [date_created |-> frame[i].date_created,
         count |-> frame[i].count,
         cumsum |-> SumCount(frame, i)]]

\* frame[(frame.date_created >= lo) & (frame.date_created <= hi)]
between_closed(frame, lo, hi) ==
    SelectSeq(frame, LAMBDA r : r.date_created >= lo /\ r.date_created <= hi)

\* frame[(frame.date_created > lo) & (frame.date_created <= hi)]
between(frame, lo, hi) ==
    SelectSeq(frame, LAMBDA r : r.date_created > lo /\ r.date_created <= hi)

-----------------------------------------------------------------------------
(* get_window_data, app.py:82-136 *)

\* the table taken whole, its rows unfiltered
all_rows(df_, start_date, end_date) == df_

\* df[(df.date_created.dt.date >= start_date) & (... <= end_date)], the
\* table being the sequence of its rows' date_created
in_range(df_, start_date, end_date) ==
    SelectSeq(df_, LAMBDA d : d >= start_date /\ d <= end_date)

get_window_data(df_, days_) ==
    LET start_curr == CURRENT_DATE - days_
        start_prev == CURRENT_DATE - days_ * 2
        start_prev2 == CURRENT_DATE - days_ * 3
        start_prev3 == CURRENT_DATE - days_ * 4
        ts_curr == date_frame(date_range(start_curr, CURRENT_DATE))
        ts_prev == date_frame(date_range(start_prev, start_curr))
        ts_prev2 == date_frame(date_range(start_prev2, start_prev))
        ts_prev3 == date_frame(date_range(start_prev3, start_prev2))
        start_date == start_prev3
        end_date == CURRENT_DATE
        raw_data == value_counts(in_range(df_, start_date, end_date))
        ts == date_frame(date_range(start_date, end_date))
        \* ts.merge(raw_data, how='outer').fillna(0): lines 107, 110, 114, 118
        \* and 121 each evaluate it afresh, always to this same frame
        merged == fillna(merge_outer(ts, raw_data), 0)
        data == merged
        current_data ==
            between(merged, start_curr, CURRENT_DATE)
        previous_data ==
            between(merged, start_prev, start_curr)
        previous_data2 ==
            between(merged, start_prev2, start_prev)
        previous_data3 ==
            between(merged, start_prev3, start_prev2)
        \* join all data: ts_prev3 is built above and joined to nothing
        current_joined == fillna(merge_outer(current_data, ts_curr), 0)
        previous_joined == fillna(merge_outer(previous_data, ts_prev), 0)
        previous2_joined == fillna(merge_outer(previous_data2, ts_prev2), 0)
    IN [data |-> with_cumsum(data),
        current_data |-> with_cumsum(current_joined),
        previous_data |-> with_cumsum(previous_joined),
        previous_data2 |-> with_cumsum(previous2_joined),
        previous_data3 |-> with_cumsum(previous_data3)]

-----------------------------------------------------------------------------
(* calc_delta, app.py:138-145 *)

RECURSIVE GCD(_, _)
GCD(a, b) == IF b = 0 THEN a ELSE GCD(b, a % b)

Abs(n) == IF n < 0 THEN -n ELSE n

\* the quotient n / d (d # 0) as a fraction in lowest terms, den > 0
Frac(n, d) ==
    LET g == GCD(Abs(n), Abs(d))
        s == IF d < 0 THEN -1 ELSE 1
    IN [nan |-> FALSE, num |-> s * (n \div g), den |-> s * (d \div g)]

FloatNaN == [nan |-> TRUE, num |-> 0, den |-> 1]

\* calc_delta without the sentinel for growth from a zero baseline
calc_delta_zero_on_no_baseline(curr, prev) ==
    IF prev = Num(0) THEN Frac(0, 1)
    ELSE IF curr = NaN \/ prev = NaN THEN FloatNaN
         ELSE Frac(curr[1] - prev[1], prev[1])

\* curr and prev are numbers <<n>> or NaN; NaN == 0 is False in Python and
\* arithmetic on NaN gives NaN
calc_delta(curr, prev) ==
    IF prev = Num(0)
    THEN IF curr = Num(0) THEN Frac(0, 1) ELSE Frac(1, 1)
    ELSE IF curr = NaN \/ prev = NaN THEN FloatNaN
         ELSE Frac(curr[1] - prev[1], prev[1])

-----------------------------------------------------------------------------
(* get_delta_pct, app.py:147-181 *)

\* Series.max(): NaN for an empty column
col_max(frame, col) ==
    IF frame = <<>> THEN NaN
    ELSE LET S == {frame[i][col] : i \in DOMAIN frame}
         IN Num(CHOOSE m \in S : \A x \in S : x <= m)

\* delta_pct <= 0 in place of delta_pct < 0
le_zero(x) == ~x.nan /\ x.num <= 0

\* delta_pct < 0; a comparison with NaN is False
lt_zero(x) == ~x.nan /\ x.num < 0

\* get_delta_pct with the two totals handed to calc_delta in the wrong order
get_delta_pct_swapped(current_data, previous_data) ==
    LET curr_cumsum_max == col_max(current_data, "cumsum")
        prev_cumsum_max == col_max(previous_data, "cumsum")
        delta_pct == calc_delta(prev_cumsum_max, curr_cumsum_max)
    IN IF lt_zero(delta_pct)
       THEN [delta_pct |-> delta_pct,
             curr_line_color |-> "rgba(255, 43, 43, 0.1)",
             curr_line_color_bg |-> "rgb(255, 43, 43)"]
       ELSE [delta_pct |-> delta_pct,
             curr_line_color |-> "rgba(33, 195, 84, 0.1)",
             curr_line_color_bg |-> "rgb(21, 130, 55)"]

get_delta_pct(current_data, previous_data) ==
    LET curr_cumsum_max == col_max(current_data, "cumsum")
        prev_cumsum_max == col_max(previous_data, "cumsum")
        delta_pct == calc_delta(curr_cumsum_max, prev_cumsum_max)
    IN IF lt_zero(delta_pct)
       THEN [delta_pct |-> delta_pct,
             curr_line_color |-> "rgba(255, 43, 43, 0.1)",
             curr_line_color_bg |-> "rgb(255, 43, 43)"]
       ELSE [delta_pct |-> delta_pct,
             curr_line_color |-> "rgba(33, 195, 84, 0.1)",
             curr_line_color_bg |-> "rgb(21, 130, 55)"]

-----------------------------------------------------------------------------
(* create_combined_data, app.py:183-216 *)

\* a label assignment that writes 'current' whatever label is asked for
with_period_always_current(frame, label) ==
    [i \in DOMAIN frame |->
        [date_created |-> frame[i].date_created,
         count |-> frame[i].count,
         cumsum |-> frame[i].cumsum,
         period |-> "current"]]

\* frame.loc[:, 'period'] = label
with_period(frame, label) ==
    [i \in DOMAIN frame |->
        [date_created |-> frame[i].date_created,
         count |-> frame[i].count,
         cumsum |-> frame[i].cumsum,
         period |-> label]]

\* a combined running total copied from each window's own cumsum
with_combined_cumsum_own(frame) ==
    [i \in DOMAIN frame |->
        [date_created |-> frame[i].date_created,
         count |-> frame[i].count,
         cumsum |-> frame[i].cumsum,
         period |-> frame[i].period,
         combined_cumsum |-> frame[i].cumsum]]

\* combined['combined_cumsum'] = combined['count'].fillna(0).cumsum().astype(int)
with_combined_cumsum(frame) ==
    [i \in DOMAIN frame |->
        [date_created |-> frame[i].date_created,
         count |-> frame[i].count,
         cumsum |-> frame[i].cumsum,
         period |-> frame[i].period,
         combined_cumsum |-> SumCount(frame, i)]]

\* the frame with its last row kept
keep_last(frame) == frame

\* previous_data.iloc[:-1]
drop_last(frame) == SubSeq(frame, 1, Len(frame) - 1)

\* a row check that also rejects two rows
too_short_below_three(frame) == Len(frame) < 3

\* len(previous_data) < 2
too_short(frame) == Len(frame) < 2

create_combined_data(current_data, previous_data) ==
    LET colours == get_delta_pct(current_data, previous_data)
    IN IF too_short(previous_data)
       THEN [kind |-> "raised", error |-> "ValueError"]
       ELSE LET new_row ==
                    [date_created |-> previous_data[Len(previous_data) - 1].date_created,
                     count |-> 0,
                     cumsum |-> 0]
                current_ext == with_period(<<new_row>> \o current_data, "current")
                previous_cut == with_period(drop_last(previous_data), "previous")
                combined_data == with_combined_cumsum(previous_cut \o current_ext)
            IN [kind |-> "returned",
                combined_data |-> combined_data,
                delta_pct |-> colours.delta_pct,
                curr_line_color |-> colours.curr_line_color,
                curr_line_color_bg |-> colours.curr_line_color_bg]

-----------------------------------------------------------------------------
(* The frames create_combined_data works on, as objects.  arg_current and   *)
(* arg_previous are the caller's two frames; current_copy, previous_copy    *)
(* and combined are the frames the function builds.  A local name refers to *)
(* one object at a time, and an assignment through .loc writes into the     *)
(* object the name refers to.                                               *)

\* the objects when the function is entered: nothing built yet
frames_at_call(current_data, previous_data) ==
    [arg_current |-> current_data,
     arg_previous |-> previous_data,
     current_copy |-> <<>>,
     previous_copy |-> <<>>,
     combined |-> <<>>]

\* the name keeps referring to the object it referred to before
rebound_in_place(old_ref, new_ref) == old_ref

\* name = (...).copy(): the name refers to the new object from here on
\* (app.py:198, 201)
rebound(old_ref, new_ref) == new_ref

\* name.loc[:, 'period'] = label: a write into the object the name refers to
set_period(frames, ref, label) ==
    [frames EXCEPT ![ref] = with_period(@, label)]

\* the objects when create_combined_data returns or raises, and the object
\* it returns ("none" when it raises)
create_combined_data_frames(current_data, previous_data) ==
    LET at_call == frames_at_call(current_data, previous_data)
    IN IF too_short(at_call.arg_previous)
       THEN [frames |-> at_call, returned |-> "none"]
       ELSE LET new_row ==
                    [date_created |->
                         at_call.arg_previous[Len(at_call.arg_previous) - 1].date_created,
                     count |-> 0,
                     cumsum |-> 0]
                curr == rebound("arg_current", "current_copy")
                concatenated ==
                    [at_call EXCEPT ![curr] = <<new_row>> \o at_call.arg_current]
                prev == rebound("arg_previous", "previous_copy")
                cut == [concatenated EXCEPT
                            ![prev] = drop_last(concatenated.arg_previous)]
                labelled == set_period(set_period(cut, prev, "previous"),
                                       curr, "current")
                at_return ==
                    [labelled EXCEPT
                         !.combined =
                             with_combined_cumsum(labelled[prev] \o labelled[curr])]
            IN [frames |-> at_return, returned |-> "combined"]

-----------------------------------------------------------------------------
(* RateLimiter, rate_limit_utils.py:10-134.  Delays are seconds as exact     *)
(* fractions.  A handler is an operator from the limiter (self) and what    *)
(* it is handed to the limiter afterwards, its return value (retry) and the *)
(* sleeps it performed, in order (slept).                                   *)

\* the limiter's parameters: create_api_session(API_KEY, base_delay=1.0,
\* max_delay=60.0, max_retries=15); the two limits are kept small here
base_delay == 1
max_delay == 4
max_retries == 3

Float(n) == Frac(n, 1)

\* a * b, a <= b and min(a, b) on fractions
mul(a, b) == Frac(a.num * b.num, a.den * b.den)

le(a, b) == a.num * b.den <= b.num * a.den

min(a, b) == IF le(a, b) THEN a ELSE b

\* RateLimiter.__init__
RateLimiter(max_delay_, max_retries_) ==
    [max_delay |-> max_delay_,
     max_retries |-> max_retries_,
     current_delay |-> Float(base_delay),
     retry_count |-> 0]

\* the limiters followed: one whose max_delay is below
\* base_delay * 2^max_retries, as with create_api_session(API_KEY, 1.0, 60.0,
\* 15) and with the defaults (1.0, 60.0, 10), and one whose max_delay is
\* above it
Limiters ==
    {RateLimiter(max_delay, max_retries),
     RateLimiter(base_delay * 2^max_retries + 1, max_retries)}

\* a reset of the delay that leaves the retry count as it is
reset_delay_only(self) == [self EXCEPT !.current_delay = Float(base_delay)]

\* RateLimiter.reset
reset(self) == [self EXCEPT !.current_delay = Float(base_delay), !.retry_count = 0]

\* jitter_factor = 0.75 + random.random() * 0.5, a number in [0.75, 1.25)
JitterFactors == {Frac(3, 4), Frac(1, 1), Frac(6, 5)}

\* RateLimiter.get_delay (jitter is True by default)
get_delay(self, jitter_factor) ==
    min(mul(self.current_delay, jitter_factor), Float(self.max_delay))

\* RateLimiter.wait: the sleep it performs
wait(self, jitter_factor) == <<get_delay(self, jitter_factor)>>

\* self.current_delay = self.current_delay * factor, with no cap
backed_off_uncapped(self, factor) ==
    [self EXCEPT !.current_delay = mul(@, factor)]

\* self.current_delay = min(self.current_delay * factor, self.max_delay)
backed_off(self, factor) ==
    [self EXCEPT !.current_delay = min(mul(@, factor), Float(self.max_delay))]

\* the Retry-After header of a response: absent (or empty), text that is not
\* an integer (an HTTP date), or an integer
RetryAfterValues ==
    {-1, 0, 1} \cup {l.max_delay : l \in Limiters}
        \cup {l.max_delay + 1 : l \in Limiters}

RetryAfterHeaders ==
    {[kind |-> "absent", value |-> 0], [kind |-> "text", value |-> 0]}
        \cup {[kind |-> "int", value |-> n] : n \in RetryAfterValues}

\* int(retry_after) and time.sleep(wait_time) both succeed: the header is an
\* integer and not negative (either one raises ValueError otherwise, which
\* the handler swallows)
followed(retry_after) == retry_after.kind = "int" /\ retry_after.value >= 0

\* RateLimiter.handle_rate_limit_error
handle_rate_limit_error(self, jitter_factor) ==
    LET counted == [self EXCEPT !.retry_count = @ + 1]
    IN IF counted.retry_count > self.max_retries
       THEN [self |-> counted, retry |-> FALSE, slept |-> <<>>]
       ELSE [self |-> backed_off(counted, Float(2)),
             retry |-> TRUE,
             slept |-> wait(counted, jitter_factor)]

\* RateLimiter.handle_rate_limit
handle_rate_limit(self, response, jitter_factor) ==
    IF response.status_code = 429
    THEN LET counted == [self EXCEPT !.retry_count = @ + 1]
         IN IF counted.retry_count > self.max_retries
            THEN [self |-> counted, retry |-> FALSE, slept |-> <<>>]
            ELSE IF followed(response.retry_after)
                 THEN [self |-> reset(counted),
                       retry |-> TRUE,
                       slept |-> <<Float(response.retry_after.value)>>]
                 ELSE [self |-> backed_off(counted, Float(2)),
                       retry |-> TRUE,
                       slept |-> wait(counted, jitter_factor)]
    ELSE [self |-> self, retry |-> FALSE, slept |-> <<>>]

\* RateLimiter.handle_error; error.mentions_429 says that str(error) holds
\* "429" or "rate limit", error.request_exception that the error is a
\* requests.exceptions.RequestException (ConnectionError, Timeout, HTTPError)
handle_error(self, error, jitter_factor) ==
    IF error.mentions_429
    THEN handle_rate_limit_error(self, jitter_factor)
    ELSE IF error.request_exception
         THEN LET counted == [self EXCEPT !.retry_count = @ + 1]
              IN IF counted.retry_count > self.max_retries
                 THEN [self |-> counted, retry |-> FALSE, slept |-> <<>>]
                 ELSE [self |-> backed_off(counted, Frac(3, 2)),
                       retry |-> TRUE,
                       slept |-> wait(counted, jitter_factor)]
         ELSE [self |-> self, retry |-> FALSE, slept |-> <<>>]

-----------------------------------------------------------------------------
(* The two retry loops, rate_limit_utils.py:136-213.  An outcome is what    *)
(* one call of session.request (or of the decorated function) does: it      *)
(* returns a response, or raises.  One pass of a loop takes the limiter and *)
(* the outcome to the limiter afterwards, the sleeps performed and where    *)
(* the loop is then: "trying" (continue), "returned" or "raised".           *)

NoHeader == [kind |-> "absent", value |-> 0]

Outcome(kind, status_code, retry_after, mentions_429, request_exception) ==
    [kind |-> kind,
     status_code |-> status_code,
     retry_after |-> retry_after,
     mentions_429 |-> mentions_429,
     request_exception |-> request_exception]

\* responses: 200, 429 with any Retry-After header, 500; the message of the
\* HTTPError that raise_for_status builds starts with the status code and
\* ends with the URL, so it holds "429" for a 429 and may for a 500
Responses ==
    {Outcome("response", 200, NoHeader, FALSE, TRUE)}
        \cup {Outcome("response", 429, h, TRUE, TRUE) : h \in RetryAfterHeaders}
        \cup {Outcome("response", 500, NoHeader, m, TRUE) : m \in BOOLEAN}

\* the HTTPError raise_for_status raises for a response of status >= 400
HTTPError(response) ==
    Outcome("HTTPError", response.status_code, response.retry_after,
            response.mentions_429, TRUE)

HTTPErrors == {HTTPError(r) : r \in {q \in Responses : q.status_code >= 400}}

\* requests' own errors without a response (ConnectionError, Timeout)
ConnectionErrors ==
    {Outcome("exception", 0, NoHeader, m, TRUE) : m \in BOOLEAN}

\* any other exception (a ValueError, say)
OtherExceptions ==
    {Outcome("exception", 0, NoHeader, m, FALSE) : m \in BOOLEAN}

\* one pass of the loop of make_rate_limited_request, rate_limit_utils.py:193-213
make_rate_limited_request(self, outcome, jitter_factor) ==
    LET handled(error, before) ==
            LET h == handle_error(before.self, error, jitter_factor)
            IN [self |-> h.self,
                pc |-> IF h.retry THEN "trying" ELSE "raised",
                slept |-> before.slept \o h.slept]
        entered == [self |-> self, slept |-> <<>>]
    IN IF outcome.kind = "response"
       THEN IF outcome.status_code = 429
            THEN LET h == handle_rate_limit(self, outcome, jitter_factor)
                 IN IF h.retry
                    THEN [self |-> h.self, pc |-> "trying", slept |-> h.slept]
                    ELSE handled(HTTPError(outcome), h)
            ELSE IF outcome.status_code >= 400
                 THEN handled(HTTPError(outcome), entered)
                 ELSE [self |-> reset(self), pc |-> "returned", slept |-> <<>>]
       ELSE handled(outcome, entered)

\* the wrapper with every HTTPError handed to handle_error
wrapper_handling_every_error(self, outcome, jitter_factor) ==
    LET handled(h) ==
            [self |-> h.self,
             pc |-> IF h.retry THEN "trying" ELSE "raised",
             slept |-> h.slept]
    IN IF outcome.kind = "response"
       THEN [self |-> reset(self), pc |-> "returned", slept |-> <<>>]
       ELSE IF outcome.kind = "HTTPError" /\ outcome.status_code = 429
            THEN handled(handle_rate_limit(self, outcome, jitter_factor))
            ELSE handled(handle_error(self, outcome, jitter_factor))

\* one pass of the loop of the decorator's wrapper, rate_limit_utils.py:150-168
wrapper(self, outcome, jitter_factor) ==
    LET handled(h) ==
            [self |-> h.self,
             pc |-> IF h.retry THEN "trying" ELSE "raised",
             slept |-> h.slept]
    IN IF outcome.kind = "response"
       THEN [self |-> reset(self), pc |-> "returned", slept |-> <<>>]
       ELSE IF outcome.kind = "HTTPError"
            THEN IF outcome.status_code = 429
                 THEN handled(handle_rate_limit(self, outcome, jitter_factor))
                 ELSE [self |-> self, pc |-> "raised", slept |-> <<>>]
            ELSE handled(handle_error(self, outcome, jitter_factor))

-----------------------------------------------------------------------------
(* State: the clients table df (the date_created of each row), the last     *)
(* days passed to get_window_data (None before the first call, app.py:509), *)
(* the five series it returned, and the last call of create_combined_data   *)
(* or calc_delta with what it returned or raised.                           *)

None == <<>>

NoWindows ==
    [data |-> <<>>, current_data |-> <<>>, previous_data |-> <<>>,
     previous_data2 |-> <<>>, previous_data3 |-> <<>>]

NoCall == [fn |-> "none"]

NoRet == [kind |-> "none"]

NoOutcome == Outcome("none", 0, NoHeader, FALSE, FALSE)

\* no request made yet
Idle ==
    [via |-> "none", pc |-> "idle", retries |-> 0, last |-> NoOutcome,
     slept |-> <<>>, streak |-> Num(0)]

\* the four windows, newest first
WindowNames == <<"current_data", "previous_data", "previous_data2", "previous_data3">>

\* every table of at most MaxEvents rows
Tables == UNION {[1 .. n -> EventDates] : n \in 0 .. MaxEvents}

Init ==
    /\ df \in Tables
    /\ days = None
    /\ windows = NoWindows
    /\ call = NoCall
    /\ ret = NoRet
    /\ limiter = RateLimiter(max_delay, max_retries)
    /\ req = Idle

\* data, current_data, ... = get_window_data(df, d)
GetWindowData(d) ==
    /\ days' = Num(d)
    /\ windows' = get_window_data(df, d)
    /\ call' = NoCall
    /\ ret' = NoRet
    /\ UNCHANGED <<df, limiter, req>>

\* create_combined_data(later window, earlier window) on two adjacent
\* windows of the last get_window_data: window c and the next-older one
\* (app.py:581 passes current/previous and previous/previous2)
CreateCombinedData(c) ==
    /\ days # None
    /\ LET effect == create_combined_data_frames(windows[WindowNames[c]],
                                                 windows[WindowNames[c + 1]])
       IN /\ call' = [fn |-> "create_combined_data",
                      later |-> c,
                      current_data |-> windows[WindowNames[c]],
                      previous_data |-> windows[WindowNames[c + 1]],
                      returned |-> effect.returned,
                      combined |-> effect.frames.combined]
          /\ windows' = [windows EXCEPT
                             ![WindowNames[c]] = effect.frames.arg_current,
                             ![WindowNames[c + 1]] = effect.frames.arg_previous]
    /\ ret' = create_combined_data(windows[WindowNames[c]], windows[WindowNames[c + 1]])
    /\ UNCHANGED <<df, days, limiter, req>>

Next ==
    \/ \E d \in 0 .. MaxDays : GetWindowData(d)
    \/ \E c \in 1 .. (Len(WindowNames) - 1) : CreateCombinedData(c)

Spec == Init /\ [][Next]_vars

-----------------------------------------------------------------------------
(* calc_delta called on its own, as app.py:552-554 does with two totals *)

InitCalcDelta ==
    /\ df = <<>>
    /\ days = None
    /\ windows = NoWindows
    /\ \E curr, prev \in 0 .. MaxTotal :
          call = [fn |-> "calc_delta", curr |-> curr, prev |-> prev]
    /\ ret = NoRet
    /\ limiter = RateLimiter(max_delay, max_retries)
    /\ req = Idle

CalcDelta ==
    /\ call.fn = "calc_delta"
    /\ ret = NoRet
    /\ ret' = [kind |-> "returned",
               delta_pct |-> calc_delta(Num(call.curr), Num(call.prev))]
    /\ UNCHANGED <<df, days, windows, call, limiter, req>>

NextCalcDelta == CalcDelta

SpecCalcDelta == InitCalcDelta /\ [][NextCalcDelta]_vars

-----------------------------------------------------------------------------
(* Requests through the shared limiter of query_full_dataset.py and calls   *)
(* of a function decorated with rate_limited_request.  req is the call in   *)
(* progress: which loop runs it (via), where the loop is (pc), how many     *)
(* times it has gone round again (retries), the outcome of its last pass    *)
(* (last) and the sleeps of that pass (slept).  streak is the number of     *)
(* 429 answers since the limiter was last reset when nothing but such       *)
(* answers came since then, None otherwise.                                 *)

\* the passes of a loop that are followed within one call
MaxTries == max_retries + 2

Started(via) ==
    [via |-> via, pc |-> "trying", retries |-> 0, last |-> NoOutcome,
     slept |-> <<>>, streak |-> Num(0)]

\* the streak after a pass that took the limiter from self to step.self: a
\* retry_count of 0 is a limiter just reset (or never used)
streak_after(streak, self, step, outcome) ==
    IF step.self.retry_count = 0 THEN Num(0)
    ELSE IF outcome.status_code = 429
         THEN IF streak = None THEN None ELSE Num(streak[1] + 1)
         ELSE IF step.self = self THEN streak ELSE None

\* what a pass leaves in req
Passed(step, outcome) ==
    [req EXCEPT !.pc = step.pc,
                !.retries = IF step.pc = "trying" THEN @ + 1 ELSE @,
                !.last = outcome,
                !.slept = step.slept,
                !.streak = streak_after(@, limiter, step, outcome)]

\* session, rate_limiter = create_api_session(...), query_full_dataset.py:14-19
InitRequest ==
    /\ df = <<>>
    /\ days = None
    /\ windows = NoWindows
    /\ call = NoCall
    /\ ret = NoRet
    /\ limiter \in Limiters
    /\ req = Idle

\* make_rate_limited_request(session, "GET", url, rate_limiter) is called
\* with the module's limiter as the call before left it
\* (query_full_dataset.py:86, 164); retry_count grows without limit over
\* calls that raise, and calls are followed while it is at most MaxTries
\* (every count above max_retries is handled alike)
MakeRateLimitedRequest ==
    /\ req.pc # "trying"
    /\ limiter.retry_count <= MaxTries
    /\ req' = [Started("make_rate_limited_request") EXCEPT !.streak = req.streak]
    /\ UNCHANGED <<df, days, windows, call, ret, limiter>>

\* one pass of its loop: session.request answers or raises
SessionRequest(outcome, jitter_factor) ==
    /\ req.via = "make_rate_limited_request"
    /\ req.pc = "trying"
    /\ req.retries < MaxTries
    /\ LET step == make_rate_limited_request(limiter, outcome, jitter_factor)
       IN /\ limiter' = step.self
          /\ req' = Passed(step, outcome)
    /\ UNCHANGED <<df, days, windows, call, ret>>

NextRequest ==
    \/ MakeRateLimitedRequest
    \/ \E outcome \in Responses \cup ConnectionErrors, jitter_factor \in JitterFactors :
          SessionRequest(outcome, jitter_factor)

SpecRequest == InitRequest /\ [][NextRequest]_vars

\* a decorated function is called: the wrapper makes its own RateLimiter()
\* (rate_limit_utils.py:148)
CallWrapper ==
    /\ req.pc # "trying"
    /\ limiter' = RateLimiter(limiter.max_delay, limiter.max_retries)
    /\ req' = Started("wrapper")
    /\ UNCHANGED <<df, days, windows, call, ret>>

\* one pass of the wrapper's loop: func returns or raises
Func(outcome, jitter_factor) ==
    /\ req.via = "wrapper"
    /\ req.pc = "trying"
    /\ req.retries < MaxTries
    /\ LET step == wrapper(limiter, outcome, jitter_factor)
       IN /\ limiter' = step.self
          /\ req' = Passed(step, outcome)
    /\ UNCHANGED <<df, days, windows, call, ret>>

FuncOutcomes ==
    {r \in Responses : r.status_code = 200}
        \cup HTTPErrors \cup ConnectionErrors \cup OtherExceptions

NextDecorator ==
    \/ CallWrapper
    \/ \E outcome \in FuncOutcomes, jitter_factor \in JitterFactors :
          Func(outcome, jitter_factor)

SpecDecorator == InitRequest /\ [][NextDecorator]_vars

-----------------------------------------------------------------------------
(* fetch_all_appointments and fetch_all_clients, query_full_dataset.py:21-186: *)
(* the same loop over pages in both.  call holds the function's frame: the  *)
(* pages the server has (records are their Ids), the page to ask for next   *)
(* and the list out gathered so far; ret is what the function returned.     *)

MaxPages == 2

\* what one page can hold; the server answers [] for an empty page and for
\* every page after its last one
Batches == {<<>>, <<1>>, <<2, 3>>}

ServerPages == UNION {[1 .. n -> Batches] : n \in 0 .. MaxPages}

\* batch = resp.json() for the page asked for
json(pages, page) == IF page \in DOMAIN pages THEN pages[page] ELSE <<>>

\* page += 1
next_page(page) == page + 1

\* page = 1; out = []
InitFetch ==
    /\ df = <<>>
    /\ days = None
    /\ windows = NoWindows
    /\ \E pages \in ServerPages :
          call = [fn |-> "fetch_all_clients", pages |-> pages, page |-> 1, out |-> <<>>]
    /\ ret = NoRet
    /\ limiter = RateLimiter(max_delay, max_retries)
    /\ req = Idle

\* resp = make_rate_limited_request(session, "GET", api_url, rate_limiter, ...)
\* is called for the page (query_full_dataset.py:87, 165)
FetchPage ==
    /\ call.fn = "fetch_all_clients"
    /\ ret = NoRet
    /\ req.pc = "idle"
    /\ req' = [Started("make_rate_limited_request") EXCEPT !.streak = req.streak]
    /\ UNCHANGED <<df, days, windows, call, ret, limiter>>

\* the request returned: an empty batch ends the loop and out is returned,
\* any other batch is added to out and the next page is asked for
TakeBatch ==
    /\ call.fn = "fetch_all_clients"
    /\ ret = NoRet
    /\ req.pc = "returned"
    /\ LET batch == json(call.pages, call.page)
       IN IF batch = <<>>
          THEN /\ ret' = [kind |-> "returned", out |-> call.out]
               /\ UNCHANGED <<call, req>>
          ELSE /\ call' = [call EXCEPT !.out = @ \o batch,
                                       !.page = next_page(@)]
               /\ req' = [req EXCEPT !.pc = "idle"]
               /\ UNCHANGED ret
    /\ UNCHANGED <<df, days, windows, limiter>>

\* the request raised: except Exception: break, and out is returned as it is
BreakOnError ==
    /\ call.fn = "fetch_all_clients"
    /\ ret = NoRet
    /\ req.pc = "raised"
    /\ ret' = [kind |-> "returned", out |-> call.out]
    /\ UNCHANGED <<df, days, windows, call, limiter, req>>

NextFetch ==
    \/ FetchPage
    \/ \E outcome \in Responses \cup ConnectionErrors, jitter_factor \in JitterFactors :
          SessionRequest(outcome, jitter_factor)
    \/ TakeBatch
    \/ BreakOnError

SpecFetch == InitFetch /\ [][NextFetch]_vars

-----------------------------------------------------------------------------
(* The incremental refresh: update_clients_data and update_appointments_data *)
(* of refresh_data_in_app.py:33-115 and of refresh_data.py:36-113.  A row   *)
(* is its Id (ClientId for clients) and whether all its fields are present  *)
(* (complete); the existing rows are df, the fetched ones new_data.         *)

MaxRows == 2

Rows == [Id : 1 .. 3, complete : BOOLEAN]

Frames == UNION {[1 .. n -> Rows] : n \in 0 .. MaxRows}

\* frame['Id']
IdsOf(frame) == {frame[i].Id : i \in DOMAIN frame}

\* frame.dropna(): the rows with no missing field
dropna(frame) == SelectSeq(frame, LAMBDA r : r.complete)

\* new_data[~new_data['Id'].isin(df['Id'])]
new_unique(new_data, df_) == SelectSeq(new_data, LAMBDA r : r.Id \notin IdsOf(df_))

\* pd.concat([df, new_unique], ignore_index=True)
concat(df_, new_rows) == df_ \o new_rows

NotUpdated == [kind |-> "returned", updated |-> None]

\* update_clients_data of refresh_data_in_app.py once the records are
\* fetched: the new frame it returns, or None
refresh_data_in_app_update_clients_data(df_, new_data) ==
    IF new_data # <<>>
    THEN [kind |-> "returned", updated |-> Num(concat(df_, new_unique(new_data, df_)))]
    ELSE NotUpdated

\* update_clients_data of refresh_data.py once the records are fetched: the
\* frame it writes over the data file, or None when it writes nothing
refresh_data_update_clients_data(df_, new_data) ==
    IF dropna(new_data) # <<>>
    THEN IF dropna(new_unique(new_data, df_)) # <<>>
         THEN [kind |-> "returned",
               updated |-> Num(concat(df_, new_unique(new_data, df_)))]
         ELSE NotUpdated
    ELSE NotUpdated

\* the existing rows and the records fetched for them
InitRefresh ==
    /\ df = <<>>
    /\ days = None
    /\ windows = NoWindows
    /\ \E module \in {"refresh_data_in_app", "refresh_data"}, df_ \in Frames, new_data \in Frames :
          call = [fn |-> "update_clients_data", module |-> module,
                  df |-> df_, new_data |-> new_data]
    /\ ret = NoRet
    /\ limiter = RateLimiter(max_delay, max_retries)
    /\ req = Idle

UpdateClientsData ==
    /\ call.fn = "update_clients_data"
    /\ ret = NoRet
    /\ ret' = IF call.module = "refresh_data_in_app"
              THEN refresh_data_in_app_update_clients_data(call.df, call.new_data)
              ELSE refresh_data_update_clients_data(call.df, call.new_data)
    /\ UNCHANGED <<df, days, windows, call, limiter, req>>

NextRefresh == UpdateClientsData

SpecRefresh == InitRefresh /\ [][NextRefresh]_vars

-----------------------------------------------------------------------------
(* Properties of get_window_data *)

\* the k-th window of the last get_window_data, 1 the newest
Window(k) == windows[WindowNames[k]]

DatesOf(frame) == {frame[i].date_created : i \in DOMAIN frame}

\* the dates of the frame increase by exactly one day per row
Consecutive(frame) ==
    \A i \in 2 .. Len(frame) : frame[i].date_created = frame[i - 1].date_created + 1

WindowsOfAtLeastOneDay == days # None /\ days[1] >= 1

\* C1: for days >= 1 each of the four windows holds exactly days+1 rows whose
\* dates increase by one day per row, without gap or duplicate.
C1_EachWindowHasDaysPlusOneRows ==
    WindowsOfAtLeastOneDay =>
        \A k \in DOMAIN WindowNames :
            /\ Len(Window(k)) = days[1] + 1
            /\ Consecutive(Window(k))

\* C2: in every window the cumsum column is the running sum of the window's
\* own counts: it starts at the first row's count and grows by each row's
\* count.
C2_CumsumRestartsInEachWindow ==
    WindowsOfAtLeastOneDay =>
        \A k \in DOMAIN WindowNames :
            \A i \in DOMAIN Window(k) :
                Window(k)[i].cumsum =
                    IF i = 1 THEN Window(k)[1].count
                    ELSE Window(k)[i - 1].cumsum + Window(k)[i].count

\* a state where the restart shows: the previous window ends with a total
\* of at least one event and the current window counts an event of its own
C2_Witness ==
    /\ WindowsOfAtLeastOneDay
    /\ Len(Window(2)) >= 2
    /\ Window(2)[Len(Window(2))].cumsum >= 1
    /\ Len(Window(1)) >= 2
    /\ Window(1)[Len(Window(1))].cumsum = 1

\* C3 as stated: no date lies in two of the four windows, and each window
\* starts the day after the next-older window ends.
C3_WindowsShareNoDate ==
    WindowsOfAtLeastOneDay =>
        /\ \A k, m \in DOMAIN WindowNames :
              k < m => DatesOf(Window(k)) \cap DatesOf(Window(m)) = {}
        /\ \A k \in 1 .. (Len(WindowNames) - 1) :
              /\ Window(k) # <<>>
              /\ Window(k + 1) # <<>>
              /\ Window(k)[1].date_created =
                     Window(k + 1)[Len(Window(k + 1))].date_created + 1

\* C3 as amended: the windows run back from the anchor date newest to
\* oldest, each window starts on the very day the next-older window ends,
\* that boundary day is the only date two adjacent windows share, and
\* windows that are not adjacent share no date.
C3_AdjacentWindowsShareTheBoundaryDay ==
    WindowsOfAtLeastOneDay =>
        /\ \A k \in DOMAIN WindowNames : Window(k) # <<>>
        /\ Window(1)[Len(Window(1))].date_created = CURRENT_DATE
        /\ \A k \in 1 .. (Len(WindowNames) - 1) :
              /\ Window(k)[1].date_created =
                     Window(k + 1)[Len(Window(k + 1))].date_created
              /\ DatesOf(Window(k)) \cap DatesOf(Window(k + 1)) =
                     {Window(k)[1].date_created}
        /\ \A k, m \in DOMAIN WindowNames :
              m > k + 1 => DatesOf(Window(k)) \cap DatesOf(Window(m)) = {}

\* windows of two days each, built from a table with an event on the day
\* the current and the previous window share
C3_Witness ==
    /\ days = Num(2)
    /\ Len(Window(1)) = 3
    /\ \E i \in DOMAIN df : df[i] = CURRENT_DATE - 2

\* C11: get_window_data called with days < 1 fails instead of returning
\* windows: after such a call none of the five series has been returned.
C11_DaysBelowOneReturnsNoWindows ==
    (days # None /\ days[1] < 1) => windows = NoWindows

\* the table without the rows dated before anchor - 4*days or after the
\* anchor date
WithoutOutside(df_, days_) ==
    SelectSeq(df_, LAMBDA d : ~(d < CURRENT_DATE - 4 * days_ \/ d > CURRENT_DATE))

\* C12: events dated before anchor - 4*days or after the anchor date are
\* ignored: the five series returned for the table are those returned for
\* the table with every such event removed.
C12_EventsOutsideAreIgnored ==
    (days # None /\ call = NoCall) =>
        windows = get_window_data(WithoutOutside(df, days[1]), days[1])

\* windows of one day each built from a table that holds an event after the
\* anchor date and an event before the oldest window
C12_Witness ==
    /\ days = Num(1)
    /\ call = NoCall
    /\ \E i \in DOMAIN df : df[i] > CURRENT_DATE
    /\ \E i \in DOMAIN df : df[i] < CURRENT_DATE - 4
    /\ windows.data # <<>>

\* C13: with an empty table and days >= 1 every window still has its
\* complete date skeleton (days+1 consecutive days), every count and every
\* cumsum is 0, and the delta of two such windows is 0.
C13_EmptyTableGivesZeroSkeleton ==
    (WindowsOfAtLeastOneDay /\ df = <<>>) =>
        /\ \A k \in DOMAIN WindowNames :
              /\ Len(Window(k)) = days[1] + 1
              /\ Consecutive(Window(k))
              /\ \A i \in DOMAIN Window(k) :
                    Window(k)[i].count = 0 /\ Window(k)[i].cumsum = 0
        /\ (call.fn = "create_combined_data" /\ ret.kind = "returned") =>
              ret.delta_pct = [nan |-> FALSE, num |-> 0, den |-> 1]

\* the events of the table df dated day
EventsOn(day) == Cardinality({i \in DOMAIN df : df[i] = day})

\* the count the k-th window gives for day: 0 when it has no row for it
CountIn(k, day) ==
    LET R == {i \in DOMAIN Window(k) : Window(k)[i].date_created = day}
    IN IF R = {} THEN 0 ELSE Window(k)[CHOOSE i \in R : TRUE].count

\* the final cumsum of the k-th window: 0 for a window of no rows
FinalCumsum(k) ==
    IF Window(k) = <<>> THEN 0 ELSE Window(k)[Len(Window(k))].cumsum

\* C24: event conservation: every event dated in (anchor - 4*days, anchor]
\* is counted in exactly one of the four windows, so the four final cumsums
\* add up to the number of such events; an event dated on a boundary
\* anchor - k*days (k = 1, 2, 3) is counted only in the older window, where
\* it is the last day, and the newer window's row for that date has count 0.
C24_EveryEventIsCountedOnce ==
    (days # None /\ call = NoCall) =>
        LET InWindows == (CURRENT_DATE - 4 * days[1] + 1) .. CURRENT_DATE
        IN /\ \A day \in InWindows :
                 /\ CountIn(1, day) + CountIn(2, day) + CountIn(3, day)
                        + CountIn(4, day) = EventsOn(day)
                 /\ Cardinality({k \in 1 .. 4 : CountIn(k, day) > 0}) <= 1
           /\ FinalCumsum(1) + FinalCumsum(2) + FinalCumsum(3) + FinalCumsum(4)
                  = Cardinality({i \in DOMAIN df : df[i] \in InWindows})
           /\ days[1] >= 1 =>
                 \A k \in 1 .. 3 :
                    LET boundary == CURRENT_DATE - k * days[1]
                    IN /\ Window(k)[1].date_created = boundary
                       /\ Window(k)[1].count = 0
                       /\ Window(k + 1)[Len(Window(k + 1))].date_created = boundary
                       /\ Window(k + 1)[Len(Window(k + 1))].count = EventsOn(boundary)

\* windows of two days each from a table with an event on the boundary of
\* the two newest windows and an event inside a window
C24_Witness ==
    /\ days = Num(2)
    /\ call = NoCall
    /\ EventsOn(CURRENT_DATE - 2) > 0
    /\ EventsOn(CURRENT_DATE - 5) > 0
    /\ FinalCumsum(2) = 1
    /\ FinalCumsum(3) = 1

-----------------------------------------------------------------------------
(* Properties of create_combined_data *)

Combined == call.fn = "create_combined_data"

Returned == Combined /\ ret.kind = "returned"

\* the sum of the count column
Total(frame) == SumCount(frame, Len(frame))

\* the columns a window row carries
SameRow(r, q) ==
    /\ r.date_created = q.date_created
    /\ r.count = q.count
    /\ r.cumsum = q.cumsum

\* the rows of the combined series tagged with the label
Tagged(label) ==
    {i \in DOMAIN ret.combined_data : ret.combined_data[i].period = label}

\* C4: create_combined_data raises the insufficient-data error exactly when
\* the earlier window has fewer than 2 rows, whatever the later window
\* holds, and then returns no combined series; with 2 rows or more it
\* returns.
C4_RaisesIffEarlierShorterThanTwo ==
    Combined =>
        /\ ret.kind \in {"raised", "returned"}
        /\ ret.kind = "raised" <=> Len(call.previous_data) < 2
        /\ ret.kind = "raised" =>
              /\ ret.error = "ValueError"
              /\ "combined_data" \notin DOMAIN ret
        /\ ret.kind = "returned" => "combined_data" \in DOMAIN ret

\* an earlier window of one row, a later window that counted an event
C4_Witness ==
    /\ Combined
    /\ Len(call.previous_data) = 1
    /\ Total(call.current_data) >= 1
    /\ ret.kind = "raised"

\* C6: the first row tagged 'current' has count 0, cumsum 0 and the date of
\* the earlier window's second-to-last row; the earlier window's last row
\* is not among the 'previous' rows, which are one fewer than its rows.
C6_SyntheticRowLeadsCurrent ==
    Returned =>
        LET cd == ret.combined_data
            prev == call.previous_data
            n == Len(prev)
        IN /\ Tagged("current") # {}
           /\ LET k == CHOOSE i \in Tagged("current") :
                           \A j \in Tagged("current") : i <= j
              IN /\ cd[k].count = 0
                 /\ cd[k].cumsum = 0
                 /\ cd[k].date_created = prev[n - 1].date_created
           /\ Cardinality(Tagged("previous")) = n - 1
           /\ \A i \in Tagged("previous") :
                 cd[i].date_created # prev[n].date_created

\* a combine whose earlier window ends on a day with an event
C6_Witness ==
    /\ Returned
    /\ call.previous_data[Len(call.previous_data)].count >= 1

\* C7: combined_cumsum is the running sum of count over the whole combined
\* series, across the previous/current boundary: it starts at the first
\* row's count, grows by each row's count, and ends at the earlier window's
\* total without its last row plus the later window's total.
C7_CombinedCumsumRunsAcrossBoundary ==
    Returned =>
        LET cd == ret.combined_data
            prev == call.previous_data
        IN /\ \A i \in DOMAIN cd :
                 cd[i].combined_cumsum =
                     IF i = 1 THEN cd[1].count
                     ELSE cd[i - 1].combined_cumsum + cd[i].count
           /\ cd[Len(cd)].combined_cumsum =
                 Total(prev) - prev[Len(prev)].count + Total(call.current_data)

\* both parts count events, so the running total of the 'current' part
\* continues above the later window's own cumsum
C7_Witness ==
    /\ Returned
    /\ Total(call.current_data) >= 1
    /\ ret.combined_data[Len(ret.combined_data)].combined_cumsum
           > Total(call.current_data)

\* C8: every row is tagged 'previous' or 'current'; the 'previous' rows are
\* the earlier window without its last row, the 'current' rows are the
\* synthetic row followed by the later window, and the 'previous' rows come
\* first.
C8_PeriodTagsPartitionTheSeries ==
    Returned =>
        LET cd == ret.combined_data
            prev == call.previous_data
            curr == call.current_data
            n == Len(prev)
        IN /\ Len(cd) = (n - 1) + 1 + Len(curr)
           /\ \A i \in DOMAIN cd : cd[i].period \in {"previous", "current"}
           /\ \A i \in 1 .. (n - 1) :
                 cd[i].period = "previous" /\ SameRow(cd[i], prev[i])
           /\ cd[n].period = "current"
           /\ SameRow(cd[n], [date_created |-> prev[n - 1].date_created,
                              count |-> 0, cumsum |-> 0])
           /\ \A j \in DOMAIN curr :
                 cd[n + j].period = "current" /\ SameRow(cd[n + j], curr[j])

\* a combine of two windows of three rows each: two 'previous' rows, four
\* 'current' rows
C8_Witness ==
    /\ Returned
    /\ Len(call.previous_data) = 3
    /\ Cardinality(Tagged("previous")) = 2
    /\ Cardinality(Tagged("current")) = 4

\* C9: the delta is that of the two windows' totals as passed in, the later
\* against the earlier, by the zero-baseline policy; each window's largest
\* cumsum is its last cumsum and its total count.
C9_DeltaOfTheWindowTotals ==
    Returned =>
        LET L == Total(call.current_data)
            E == Total(call.previous_data)
            curr == call.current_data
            prev == call.previous_data
            r == ret.delta_pct
        IN /\ curr # <<>> =>
                 /\ col_max(curr, "cumsum") = Num(L)
                 /\ curr[Len(curr)].cumsum = L
           /\ col_max(prev, "cumsum") = Num(E)
           /\ prev[Len(prev)].cumsum = E
           /\ ~r.nan
           /\ r.den > 0
           /\ E = 0 /\ L = 0 => r.num = 0
           /\ E = 0 /\ L > 0 => r.num = r.den
           /\ E > 0 => r.num * E = (L - E) * r.den

\* the later window counted nothing, the earlier two events: delta -1
C9_Witness ==
    /\ Returned
    /\ Total(call.current_data) = 0
    /\ Total(call.previous_data) = 2
    /\ ret.delta_pct = [nan |-> FALSE, num |-> -1, den |-> 1]

Green ==
    /\ ret.curr_line_color = "rgba(33, 195, 84, 0.1)"
    /\ ret.curr_line_color_bg = "rgb(21, 130, 55)"

Red ==
    /\ ret.curr_line_color = "rgba(255, 43, 43, 0.1)"
    /\ ret.curr_line_color_bg = "rgb(255, 43, 43)"

\* C10: the colours are the green pair exactly when delta_pct >= 0 and the
\* red pair exactly when delta_pct < 0; green exactly when the later
\* window's total is at least the earlier window's.
C10_ColourFollowsTheSignOfDelta ==
    Returned =>
        LET r == ret.delta_pct
        IN /\ Green <=> (~r.nan /\ r.num >= 0)
           /\ Red <=> (~r.nan /\ r.num < 0)
           /\ Green <=> Total(call.current_data) >= Total(call.previous_data)

\* a decline: one event in the earlier window, none in the later, red
C10_Witness ==
    /\ Returned
    /\ Total(call.previous_data) = 1
    /\ Total(call.current_data) = 0
    /\ Red

-----------------------------------------------------------------------------
(* Properties of calc_delta *)

CalcDeltaReturned == call.fn = "calc_delta" /\ ret.kind = "returned"

\* C5: on non-negative totals calc_delta always returns a number:
\* calc_delta(0,0) = 0, calc_delta(x,0) = 1 for x > 0, and for prev > 0
\* exactly (curr - prev)/prev, so calc_delta(150,100) = 1/2 and
\* calc_delta(50,100) = -1/2.
C5_DeltaPolicy ==
    CalcDeltaReturned =>
        LET c == call.curr
            p == call.prev
            r == ret.delta_pct
        IN /\ ~r.nan
           /\ r.den > 0
           /\ p = 0 /\ c = 0 => r.num = 0
           /\ p = 0 /\ c > 0 => r.num = 1 /\ r.den = 1
           /\ p > 0 => r.num * p = (c - p) * r.den
           /\ c = 150 /\ p = 100 => r.num = 1 /\ r.den = 2
           /\ c = 50 /\ p = 100 => r.num = -1 /\ r.den = 2

\* calc_delta(150, 0) has returned the sentinel 1
C5_Witness ==
    /\ CalcDeltaReturned
    /\ call.curr = 150
    /\ call.prev = 0
    /\ ret.delta_pct = [nan |-> FALSE, num |-> 1, den |-> 1]

\* C14: create_combined_data does not mutate its inputs: after the call,
\* whether it returned or raised, the two windows passed in have the rows,
\* columns and values they had before, and the combined series it returns
\* is an object of its own (neither of the two frames passed in) holding
\* the returned rows.
C14_InputsAreNotMutated ==
    Combined =>
        /\ windows[WindowNames[call.later]] = call.current_data
        /\ windows[WindowNames[call.later + 1]] = call.previous_data
        /\ Returned =>
              /\ call.returned \notin {"arg_current", "arg_previous"}
              /\ call.combined = ret.combined_data

\* a call that returned a combined series of two windows with events
C14_Witness ==
    /\ Returned
    /\ Total(call.current_data) > 0
    /\ Total(call.previous_data) > 0
    /\ Len(ret.combined_data) > Len(call.current_data)

-----------------------------------------------------------------------------
(* Properties of the rate limiter and the two retry loops *)

InRequest == req.via = "make_rate_limited_request"

InWrapper == req.via = "wrapper"

\* C17: max_retries bounds retrying: whatever the server answers, one call
\* of make_rate_limited_request goes round its loop again at most
\* max_retries times before it returns or raises.
C17_AtMostMaxRetriesRetries ==
    InRequest => req.retries <= limiter.max_retries

\* C18: every wait the limiter performs before a retry, the jittered
\* backoff and the wait on a 429 with a Retry-After header alike, lasts at
\* most max_delay seconds.
C18_EveryWaitIsAtMostMaxDelay ==
    InRequest =>
        \A i \in DOMAIN req.slept : le(req.slept[i], Float(limiter.max_delay))

\* C19: whenever make_rate_limited_request returns a response the shared
\* limiter is in its initial state: retry_count = 0 and
\* current_delay = base_delay.
C19_LimiterIsResetOnReturn ==
    (InRequest /\ req.pc = "returned") =>
        /\ limiter.retry_count = 0
        /\ limiter.current_delay = Float(base_delay)

\* a response returned after the loop went round at least twice
C19_Witness ==
    /\ InRequest
    /\ req.pc = "returned"
    /\ req.retries >= 2

\* C20: in the decorator's wrapper an HTTPError whose status is not 429 is
\* re-raised at once, with no retry and no wait; an HTTPError of status 429
\* is retried unless handle_rate_limit returned False (the retry count has
\* passed max_retries), and is re-raised then.
C20_WrapperReraisesHttpErrors ==
    (InWrapper /\ req.last.kind = "HTTPError") =>
        IF req.last.status_code # 429
        THEN req.pc = "raised" /\ req.slept = <<>>
        ELSE /\ req.pc \in {"trying", "raised"}
             /\ req.pc = "raised" <=> limiter.retry_count > limiter.max_retries

\* an HTTPError that is not a 429 raised after the wrapper had retried
C20_Witness ==
    /\ InWrapper
    /\ req.last.kind = "HTTPError"
    /\ req.last.status_code # 429
    /\ req.pc = "raised"
    /\ req.retries >= 1

\* base_delay <= current_delay <= max_delay
DelayIsWithinItsLimits ==
    /\ le(Float(base_delay), limiter.current_delay)
    /\ le(limiter.current_delay, Float(limiter.max_delay))

\* min(base_delay * 2^k, max_delay)
Doubled(k) == min(Float(base_delay * 2^k), Float(limiter.max_delay))

\* a pass that met a connection error (one whose text names no rate limit)
\* and goes round again has multiplied the delay by 1.5, up to max_delay
ConnectionErrorBacksOffByHalf ==
    (/\ InRequest'
     /\ req'.pc = "trying"
     /\ req'.retries = req.retries + 1
     /\ req'.last \in ConnectionErrors
     /\ ~req'.last.mentions_429) =>
        limiter'.current_delay =
            min(mul(limiter.current_delay, Frac(3, 2)), Float(limiter.max_delay))

\* C21 as claimed: backoff is exponential and capped: after k consecutive
\* 429 responses without a usable Retry-After header since the last reset,
\* whatever k is, current_delay = min(base_delay * 2^k, max_delay); a
\* connection error multiplies the delay by 1.5 instead; and in every
\* reachable state base_delay <= current_delay <= max_delay.
C21_DelayDoublesOnEvery429 ==
    /\ [](DelayIsWithinItsLimits
          /\ ((InRequest /\ req.streak # None) =>
                 limiter.current_delay = Doubled(req.streak[1])))
    /\ [][ConnectionErrorBacksOffByHalf]_vars

\* C21: backoff is exponential and capped: after k <= limiter.max_retries
\* consecutive 429 responses without a usable Retry-After header since the
\* last reset, current_delay = min(base_delay * 2^k, max_delay), and a
\* further 429 leaves the delay as it is; a connection error that is
\* retried multiplies the delay by 1.5 instead; and in every reachable
\* state base_delay <= current_delay <= max_delay.
C21_BackoffIsExponentialAndCapped ==
    /\ [](DelayIsWithinItsLimits
          /\ ((InRequest /\ req.streak # None) =>
                 limiter.current_delay =
                     IF req.streak[1] <= limiter.max_retries
                     THEN Doubled(req.streak[1])
                     ELSE Doubled(limiter.max_retries)))
    /\ [][ConnectionErrorBacksOffByHalf]_vars

\* max_retries 429 answers in a row since the reset, the delay doubled each
\* time and still below the cap
C21_Witness ==
    /\ InRequest
    /\ req.pc = "trying"
    /\ req.streak = Num(limiter.max_retries)
    /\ limiter.current_delay = Float(base_delay * 2^(limiter.max_retries))
    /\ limiter.current_delay # Float(limiter.max_delay)

-----------------------------------------------------------------------------
(* Properties of fetch_all_appointments and fetch_all_clients *)

Fetching == call.fn = "fetch_all_clients"

\* the pages before the first empty one
UpToFirstEmpty(pages) ==
    LET Empty == {n \in DOMAIN pages : pages[n] = <<>>}
    IN IF Empty = {} THEN pages
       ELSE SubSeq(pages, 1, (CHOOSE n \in Empty : \A m \in Empty : n <= m) - 1)

\* the batches of the first n pages, one after the other
RECURSIVE Concatenation(_, _)
Concatenation(pages, n) ==
    IF n = 0 THEN <<>> ELSE Concatenation(pages, n - 1) \o pages[n]

\* C22: fetch_all_appointments and fetch_all_clients fetch all records:
\* whatever the requests' outcomes, the list returned is the
\* concatenation, in page order, of every page up to the first empty page.
C22_ReturnsEveryPageUpToTheFirstEmpty ==
    (Fetching /\ ret.kind = "returned") =>
        ret.out = Concatenation(UpToFirstEmpty(call.pages),
                                Len(UpToFirstEmpty(call.pages)))

-----------------------------------------------------------------------------
(* Properties of the incremental refresh *)

Refreshed == call.fn = "update_clients_data" /\ ret.kind = "returned"

\* the data set after the refresh: the updated frame, or the existing rows
\* when nothing was updated
DataSet == IF ret.updated = None THEN call.df ELSE ret.updated[1]

\* the rows added after the existing ones
Appended == SubSeq(DataSet, Len(call.df) + 1, Len(DataSet))

\* seq is a subsequence of whole that takes exactly the rows in Keep
RECURSIVE Filtered(_, _, _)
Filtered(seq, whole, Keep) ==
    IF whole = <<>> THEN seq = <<>>
    ELSE IF Head(whole).Id \in Keep
         THEN seq # <<>> /\ Head(seq) = Head(whole)
              /\ Filtered(Tail(seq), Tail(whole), Keep)
         ELSE Filtered(seq, Tail(whole), Keep)

\* the data set starts with the existing rows, unchanged and in their order,
\* and what follows holds no row whose Id already exists
OnlyAppended ==
    /\ Len(DataSet) >= Len(call.df)
    /\ SubSeq(DataSet, 1, Len(call.df)) = call.df
    /\ \A i \in DOMAIN Appended : Appended[i].Id \notin IdsOf(call.df)

\* C23: an incremental refresh only appends: the data set after it is the
\* existing rows unchanged and in their original order, followed by every
\* fetched record whose Id is not among the existing Ids and by no fetched
\* record whose Id already exists.
C23_RefreshAppendsEveryNewRecord ==
    Refreshed =>
        /\ OnlyAppended
        /\ Filtered(Appended, call.new_data, (1 .. 3) \ IdsOf(call.df))

====
